---- MODULE Spec2Model ----
(***************************************************************************)
(* Model of the dashboard client, src/static/dashboard.js (class           *)
(* Dashboard): the digit-state table and its reconciliation against job    *)
(* snapshots, the bounded result history, the WebSocket session with its   *)
(* reconnect backoff, and the hex-fraction to decimal conversion.          *)
(*                                                                         *)
(* JavaScript values are encoded as follows.  A number is an integer; the  *)
(* three values NaN, Undefined and NonNumeric are integers outside every   *)
(* range the model uses, and arithmetic on a possibly-NaN number goes      *)
(* through Plus, MathMax and Less, which give NaN its JavaScript meaning.  *)
(* A string is a sequence of one-character strings.  A Map is a function   *)
(* whose DOMAIN is the set of keys present.                                *)
(***************************************************************************)
EXTENDS Integers, Sequences, FiniteSets, TLC

VARIABLES
    ws,                   \* readyState of this.ws, or "null" while this.ws is null
    reconnectDelay,       \* this.reconnectDelay
    reconnectTimers,      \* delays of the pending setTimeout callbacks of scheduleReconnect
    initialRenderTimeout, \* TRUE while the timer held in this.initialRenderTimeout is pending
    renderTimers,         \* number of pending setTimeout callbacks of lines 149-153
    connected,            \* what updateConnectionStatus last displayed
    results,              \* this.results
    digitStates,          \* this.digitStates
    maxDigit,             \* this.maxDigit
    inserted,             \* history: number of result events handled so far
    lastEvent,            \* history: what the last onmessage call handled
    sched,                \* history: delays given to scheduleReconnect's timers since the last onopen
    failsBeforeOpen,      \* history: Len(sched) at the last onopen, -1 before the first
    hexInput,             \* conversion run: the hexString argument
    maxDigitsInput,       \* conversion run: the maxDigits argument
    decimalOut            \* conversion run: the returned string, <<>> before the call

vars == <<ws, reconnectDelay, reconnectTimers, initialRenderTimeout, renderTimers, connected,
          results, digitStates, maxDigit, inserted, lastEvent, sched, failsBeforeOpen,
          hexInput, maxDigitsInput, decimalOut>>

connVars == <<ws, reconnectDelay, reconnectTimers, connected, sched, failsBeforeOpen>>
tableVars == <<results, digitStates, maxDigit, inserted>>
renderVars == <<initialRenderTimeout, renderTimers, lastEvent>>
convVars == <<hexInput, maxDigitsInput, decimalOut>>

----------------------------------------------------------------------------
(* Bounds of the model *)

\* digit indices of job descriptors and results range over 0..MaxIdx
MaxIdx == 1
\* a job list of a snapshot holds at most MaxJobs wrappers
MaxJobs == 1
\* the dispatcher specification handles at most MaxResultEvents result events
MaxResultEvents == 2
\* the history specification handles at most MaxSent result events
MaxSent == 60
\* the session specification follows at most MaxFailures consecutive failures
MaxFailures == 7
\* the scenario specification handles at most MaxScenarioResults result events
MaxScenarioResults == 3
\* the conversion specification converts hex strings of at most MaxHexLen digits
MaxHexLen == 3
\* ... with a maxDigits argument of at most MaxM
MaxM == 4

----------------------------------------------------------------------------
(* JavaScript values *)

\* the number NaN: parseInt of a value that does not start with digits
NaN == -1000
\* the value undefined: a field that the JSON object does not have
Undefined == -1001
\* a JSON value that is present and that parseInt cannot read ("abc", null, {})
NonNumeric == -1002

IsNumber(v) == v \notin {NaN, Undefined, NonNumeric}

\* parseInt(v) for the JSON values of the model
parseInt(v) == IF IsNumber(v) THEN v ELSE NaN

\* a + i, for a possibly NaN and i a number
Plus(a, i) == IF a = NaN THEN NaN ELSE a + i

\* i < c, for c possibly NaN: every comparison with NaN is false
Less(i, c) == c # NaN /\ i < c

\* i <= m, for m possibly NaN
LessEq(i, m) == m # NaN /\ i # NaN /\ i <= m

\* Math.max(a, b): NaN as soon as one argument is NaN
MathMax(a, b) == IF a = NaN \/ b = NaN THEN NaN ELSE IF a >= b THEN a ELSE b

Min(a, b) == IF a <= b THEN a ELSE b

\* Math.max folded over the elements of S, starting from m
RECURSIVE MaxOver(_, _)
MaxOver(m, S) ==
    IF S = {} THEN m
    ELSE LET x == CHOOSE y \in S : TRUE
         IN  MaxOver(MathMax(m, x), S \ {x})

----------------------------------------------------------------------------
(* Inbound data *)

\* result.hex values: "" (or no hex field: both are falsy), "f" and "2f"
ResultHexStrings == {<<>>, <<"f">>, <<"2", "f">>}

\* A job wrapper of a job list.  isNull: the list element is null.  ptype: the
\* payload's type, "none" when the wrapper has no payload.
JobWrapper(isNull, ptype, start, count) ==
    [isNull |-> isNull, ptype |-> ptype, start |-> start, count |-> count]

NullWrapper == JobWrapper(TRUE, "none", Undefined, Undefined)

\* the recognized descriptors: ranges within 0..MaxIdx
RangeWrappers ==
    {w \in [isNull : {FALSE}, ptype : {"bbp_hex"}, start : 0..MaxIdx, count : 1..(MaxIdx + 1)] :
        w.start + w.count - 1 <= MaxIdx}

\* a descriptor with a start that is not a number, a payload of another type,
\* and null
OddWrappers ==
    {JobWrapper(FALSE, "bbp_hex", NonNumeric, 1),
     JobWrapper(FALSE, "other", 0, 1),
     NullWrapper}

JobWrappers == RangeWrappers \cup OddWrappers

RECURSIVE SeqsUpTo(_, _)
SeqsUpTo(S, n) ==
    IF n = 0 THEN {<<>>}
    ELSE LET shorter == SeqsUpTo(S, n - 1)
         IN  shorter \cup {Append(q, x) : q \in shorter, x \in S}

\* A job list of a job_update message: defined = FALSE when the message has no
\* such field.
JobList(defined, items) == [defined |-> defined, items |-> items]

JobLists ==
    {JobList(TRUE, q) : q \in SeqsUpTo(JobWrappers, MaxJobs)} \cup {JobList(FALSE, <<>>)}

\* The result payload of a result message: defined = FALSE when the message
\* has no result field.
ResultPayload(defined, hex, start, count) ==
    [defined |-> defined, hex |-> hex, start |-> start, count |-> count]

\* results over ranges within 0..MaxIdx, with count below, at and above the
\* length of hex
RangeResults ==
    {r \in [defined : {TRUE}, hex : ResultHexStrings \ {<<>>}, start : 0..MaxIdx, count : 1..2] :
        r.start + Min(r.count, Len(r.hex)) - 1 <= MaxIdx}

\* a message without result
OddResults == {ResultPayload(FALSE, <<>>, Undefined, Undefined)}

ResultPayloads == RangeResults \cup OddResults

\* An inbound WebSocket message.  parses = FALSE: event.data is not JSON.
Message(parses, type, queue_jobs, inflight_jobs, job_id, result, timestamp) ==
    [parses |-> parses, type |-> type, queue_jobs |-> queue_jobs,
     inflight_jobs |-> inflight_jobs, job_id |-> job_id, result |-> result,
     timestamp |-> timestamp]

NoJobs == JobList(FALSE, <<>>)
NoResult == ResultPayload(FALSE, <<>>, Undefined, Undefined)

GarbageMessage == Message(FALSE, "none", NoJobs, NoJobs, Undefined, NoResult, Undefined)
QueueUpdateMessage == Message(TRUE, "queue_update", NoJobs, NoJobs, Undefined, NoResult, Undefined)
UnknownMessage == Message(TRUE, "unknown", NoJobs, NoJobs, Undefined, NoResult, Undefined)
JobUpdateMessage(q, i) == Message(TRUE, "job_update", q, i, Undefined, NoResult, Undefined)
ResultMessage(id, r, ts) == Message(TRUE, "result", NoJobs, NoJobs, id, r, ts)

----------------------------------------------------------------------------
(* The digit-state table: updateJobStates, updateResultState, getAllHexDigits *)

\* the value null of a queue or inflight entry
Null == "null"

Entry(state, value) == [state |-> state, value |-> value]

EmptyMap == [k \in {} |-> Entry("queue", Null)]

\* the test of lines 321 and 335
Recognized(job) ==
    job.ptype = "bbp_hex" /\ job.start # Undefined /\ job.count # Undefined

\* the digit indices that the inner loop of lines 322-328 (336-342) visits
JobDigits(job) ==
    IF Recognized(job)
    THEN LET start == parseInt(job.start)
             count == parseInt(job.count)
         IN  IF count = NaN THEN {} ELSE {Plus(start, i) : i \in 0..(count - 1)}
    ELSE {}

\* for (const job of jobs) throws when jobs is undefined, job.payload when job is null
ListThrows(jobs) ==
    ~jobs.defined \/ \E k \in 1..Len(jobs.items) : jobs.items[k].isNull

\* the wrappers the loop has gone through when it ends or throws
Processed(jobs) ==
    IF ~jobs.defined THEN <<>>
    ELSE LET nulls == {k \in 1..Len(jobs.items) : jobs.items[k].isNull}
             stop == IF nulls = {} THEN Len(jobs.items) + 1
                     ELSE CHOOSE k \in nulls : \A l \in nulls : k <= l
         IN  SubSeq(jobs.items, 1, stop - 1)

\* queueDigits (inflightDigits) when the loop ends or throws
CollectDigits(jobs) ==
    LET done == Processed(jobs)
    IN  UNION {JobDigits(done[k]) : k \in 1..Len(done)}

\* a pruning pass that stops after the first stale entry
PruneStaleFirstOnly(ds, queueDigits, inflightDigits) ==
    LET stale == {k \in DOMAIN ds :
                     /\ ds[k].state \in {"queue", "inflight"}
                     /\ k \notin queueDigits /\ k \notin inflightDigits}
        first == {k \in stale : \A l \in stale : k <= l}
    IN  [k \in DOMAIN ds \ first |-> ds[k]]

\* lines 347-354: entries in state queue or inflight that neither set holds are deleted
PruneStale(ds, queueDigits, inflightDigits) ==
    LET stale == {k \in DOMAIN ds :
                     /\ ds[k].state \in {"queue", "inflight"}
                     /\ k \notin queueDigits /\ k \notin inflightDigits}
    IN  [k \in DOMAIN ds \ stale |-> ds[k]]

\* a queue pass that only fills indices with no entry or in state queue
SetQueueIfAbsentOrQueue(ds, queueDigits, inflightDigits) ==
    LET set == {k \in queueDigits :
                   /\ (k \notin DOMAIN ds \/ ds[k].state = "queue")
                   /\ k \notin inflightDigits}
    IN  [k \in DOMAIN ds \cup set |-> IF k \in set THEN Entry("queue", Null) ELSE ds[k]]

\* lines 357-365: every queue index that is neither in state result nor an
\* inflight index becomes queue
SetQueue(ds, queueDigits, inflightDigits) ==
    LET set == {k \in queueDigits :
                   /\ (k \notin DOMAIN ds \/ ds[k].state # "result")
                   /\ k \notin inflightDigits}
    IN  [k \in DOMAIN ds \cup set |-> IF k \in set THEN Entry("queue", Null) ELSE ds[k]]

\* an inflight pass that only fills indices with no entry
SetInflightIfAbsent(ds, inflightDigits) ==
    LET set == {k \in inflightDigits : k \notin DOMAIN ds}
    IN  [k \in DOMAIN ds \cup set |-> IF k \in set THEN Entry("inflight", Null) ELSE ds[k]]

\* an inflight pass without the test for state result
SetInflightAlways(ds, inflightDigits) ==
    [k \in DOMAIN ds \cup inflightDigits |->
        IF k \in inflightDigits THEN Entry("inflight", Null) ELSE ds[k]]

\* lines 368-373: every inflight index not in state result becomes inflight
SetInflight(ds, inflightDigits) ==
    LET set == {k \in inflightDigits : k \notin DOMAIN ds \/ ds[k].state # "result"}
    IN  [k \in DOMAIN ds \cup set |-> IF k \in set THEN Entry("inflight", Null) ELSE ds[k]]

\* updateJobStates(queueJobs, inflightJobs) on the table ds with high-water mark
\* md: the table and the mark it leaves, and whether it threw.  The mark is
\* raised inside the two collecting loops, so an exception in a loop keeps what
\* the loop did before; the table is only written after both loops.
updateJobStates(ds, md, queueJobs, inflightJobs) ==
    LET queueDigits == CollectDigits(queueJobs)
        md1 == MaxOver(md, queueDigits)
        inflightDigits == CollectDigits(inflightJobs)
        md2 == MaxOver(md1, inflightDigits)
    IN  IF ListThrows(queueJobs)
        THEN [digitStates |-> ds, maxDigit |-> md1, threw |-> TRUE]
        ELSE IF ListThrows(inflightJobs)
        THEN [digitStates |-> ds, maxDigit |-> md2, threw |-> TRUE]
        ELSE [digitStates |->
                 SetInflight(SetQueue(PruneStale(ds, queueDigits, inflightDigits),
                                      queueDigits, inflightDigits),
                             inflightDigits),
              maxDigit |-> md2, threw |-> FALSE]

\* the number of iterations of the loop of line 384
ResultSteps(result) ==
    LET count == parseInt(result.count)
    IN  IF count = NaN \/ count < 0 THEN 0 ELSE Min(count, Len(result.hex))

\* the test of line 379
ResultUsable(result) ==
    /\ result.defined
    /\ result.hex # <<>>
    /\ result.start # Undefined
    /\ result.count # Undefined

\* lines 384-389: the keys written, and for each the last value written
ResultWrites(result) ==
    LET start == parseInt(result.start)
        n == ResultSteps(result)
        keys == {Plus(start, i) : i \in 0..(n - 1)}
    IN  [k \in keys |->
            LET last == CHOOSE i \in 0..(n - 1) :
                            /\ Plus(start, i) = k
                            /\ \A j \in 0..(n - 1) : Plus(start, j) = k => j <= i
            IN  Entry("result", result.hex[last + 1])]

\* an updateResultState that leaves an index already in state result alone
updateResultStateKeepResolved(ds, md, result) ==
    IF ResultUsable(result)
    THEN LET w == ResultWrites(result)
             set == {k \in DOMAIN w : k \notin DOMAIN ds \/ ds[k].state # "result"}
         IN  [digitStates |-> [k \in DOMAIN ds \cup set |->
                                  IF k \in set THEN w[k] ELSE ds[k]],
              maxDigit |-> MaxOver(md, DOMAIN w)]
    ELSE [digitStates |-> ds, maxDigit |-> md]

\* updateResultState(result), lines 378-393
updateResultState(ds, md, result) ==
    IF ResultUsable(result)
    THEN LET w == ResultWrites(result)
         IN  [digitStates |-> [k \in DOMAIN ds \cup DOMAIN w |->
                                  IF k \in DOMAIN w THEN w[k] ELSE ds[k]],
              maxDigit |-> MaxOver(md, DOMAIN w)]
    ELSE [digitStates |-> ds, maxDigit |-> md]

\* a scan that stops one index short of the high-water mark
HexArrayIndicesBelowMark(ds, md) ==
    {i \in DOMAIN ds :
        /\ IsNumber(i) /\ 0 <= i /\ LessEq(i + 1, md)
        /\ ds[i].state = "result"
        /\ ds[i].value # Null}

\* lines 291-297: the indices i of hexArray that hold a digit
HexArrayIndices(ds, md) ==
    {i \in DOMAIN ds :
        /\ IsNumber(i) /\ 0 <= i /\ LessEq(i, md)
        /\ ds[i].state = "result"
        /\ ds[i].value # Null}

\* lines 300-308, from index i on
RECURSIVE HexFrom(_, _, _)
HexFrom(ds, filled, i) ==
    IF i \in filled THEN <<ds[i].value>> \o HexFrom(ds, filled, i + 1) ELSE <<>>

\* getAllHexDigits()
getAllHexDigits(ds, md) == HexFrom(ds, HexArrayIndices(ds, md), 0)

----------------------------------------------------------------------------
(* The result history: addResult *)

maxResults == 50

\* an addResult that keeps the last maxResults records instead of the first
addResultSliceFromEnd(rs, data, now) ==
    LET rec == [job_id |-> data.job_id, result |-> data.result,
                timestamp |-> IF data.timestamp # Undefined /\ data.timestamp # 0
                              THEN data.timestamp ELSE now]
        all == <<rec>> \o rs
    IN  IF Len(all) > maxResults
        THEN SubSeq(all, Len(all) - maxResults + 1, Len(all)) ELSE all

\* lines 164-173: unshift the record, then slice(0, maxResults)
addResultRecord(rs, data, now) ==
    LET rec == [job_id |-> data.job_id, result |-> data.result,
                timestamp |-> IF data.timestamp # Undefined /\ data.timestamp # 0
                              THEN data.timestamp ELSE now]
        all == <<rec>> \o rs
    IN  IF Len(all) > maxResults THEN SubSeq(all, 1, maxResults) ELSE all

----------------------------------------------------------------------------
(* The conversion: hexFractionToDecimal *)

\* hexString.toUpperCase(), one character
toUpperCase(c) ==
    CASE c = "a" -> "A" [] c = "b" -> "B" [] c = "c" -> "C"
      [] c = "d" -> "D" [] c = "e" -> "E" [] c = "f" -> "F"
      [] OTHER -> c

\* parseInt(hexDigit, 16) of an upper-case hex digit
parseHexDigit(c) ==
    CASE c = "0" -> 0 [] c = "1" -> 1 [] c = "2" -> 2 [] c = "3" -> 3
      [] c = "4" -> 4 [] c = "5" -> 5 [] c = "6" -> 6 [] c = "7" -> 7
      [] c = "8" -> 8 [] c = "9" -> 9 [] c = "A" -> 10 [] c = "B" -> 11
      [] c = "C" -> 12 [] c = "D" -> 13 [] c = "E" -> 14 [] c = "F" -> 15

\* digit.toString() of a digit 0..9
digitToString(d) == <<"0", "1", "2", "3", "4", "5", "6", "7", "8", "9">>[d + 1]

\* a numerator accumulated in base 10 instead of base 16
RECURSIVE NumeratorBase10(_, _, _)
NumeratorBase10(hexDigits, i, numerator) ==
    IF i > Len(hexDigits) THEN numerator
    ELSE NumeratorBase10(hexDigits, i + 1,
                         numerator * 10 + parseHexDigit(toUpperCase(hexDigits[i])))

\* lines 247-251, from character i on
RECURSIVE Numerator(_, _, _)
Numerator(hexDigits, i, numerator) ==
    IF i > Len(hexDigits) THEN numerator
    ELSE Numerator(hexDigits, i + 1,
                   numerator * 16 + parseHexDigit(toUpperCase(hexDigits[i])))

\* lines 254-257
RECURSIVE Denominator(_, _)
Denominator(hexDigits, i) ==
    IF i > Len(hexDigits) THEN 1 ELSE 16 * Denominator(hexDigits, i + 1)

\* a long division without the break on a zero remainder
RECURSIVE LongDivisionNoBreak(_, _, _, _, _)
LongDivisionNoBreak(currentNumerator, denominator, i, digitsToShow, decimalResult) ==
    IF i >= digitsToShow THEN decimalResult
    ELSE LET times10 == currentNumerator * 10
             digit == times10 \div denominator
         IN  LongDivisionNoBreak(times10 % denominator, denominator, i + 1, digitsToShow,
                                 Append(decimalResult, digitToString(digit)))

\* lines 269-284, from iteration i on
RECURSIVE LongDivision(_, _, _, _, _)
LongDivision(currentNumerator, denominator, i, digitsToShow, decimalResult) ==
    IF i >= digitsToShow THEN decimalResult
    ELSE LET times10 == currentNumerator * 10
             digit == times10 \div denominator
             remainder == times10 % denominator
             appended == Append(decimalResult, digitToString(digit))
         IN  IF remainder = 0 THEN appended
             ELSE LongDivision(remainder, denominator, i + 1, digitsToShow, appended)

\* hexFractionToDecimal(hexString, maxDigits)
hexFractionToDecimal(hexString, maxDigits) ==
    IF Len(hexString) = 0 THEN <<"3", ".">>
    ELSE LongDivision(Numerator(hexString, 1, 0), Denominator(hexString, 1), 0,
                      Min(Len(hexString), maxDigits), <<"3", ".">>)

----------------------------------------------------------------------------
(* The session: connect, scheduleReconnect, and the socket's handlers *)

\* this.reconnectDelay of the constructor
initialReconnectDelay == 1000
maxReconnectDelay == 30000

\* an onopen that keeps the delay it finds
DelayKept(delay) == delay

\* line 75: the delay after onopen
DelayAfterOpen(delay) == 1000

\* line 110
NextDelay(delay) == Min(delay * 2, maxReconnectDelay)

RemoveAt(q, k) == SubSeq(q, 1, k - 1) \o SubSeq(q, k + 1, Len(q))

\* The state the constructor leaves: connect() has run; new WebSocket either
\* gave a socket that is connecting, or threw, and the catch clause scheduled a
\* reconnect while this.ws is still null.
InitDashboard ==
    /\ reconnectDelay = initialReconnectDelay
    /\ results = <<>>
    /\ initialRenderTimeout = FALSE
    /\ renderTimers = 0
    /\ digitStates = EmptyMap
    /\ maxDigit = -1
    /\ inserted = 0
    /\ lastEvent = "none"
    /\ connected = FALSE
    /\ failsBeforeOpen = -1
    /\ \/ ws = "CONNECTING" /\ reconnectTimers = <<>> /\ sched = <<>>
       \/ /\ ws = "null"
          /\ reconnectTimers = <<initialReconnectDelay>>
          /\ sched = <<initialReconnectDelay>>

Init ==
    /\ InitDashboard
    /\ hexInput = <<>>
    /\ maxDigitsInput = 0
    /\ decimalOut = <<>>

\* ws.onopen
OnOpen ==
    /\ ws = "CONNECTING"
    /\ ws' = "OPEN"
    /\ connected' = TRUE
    /\ reconnectDelay' = DelayAfterOpen(reconnectDelay)
    /\ failsBeforeOpen' = Len(sched)
    /\ sched' = <<>>
    /\ UNCHANGED <<reconnectTimers, renderVars, tableVars, convVars>>

\* ws.onclose of a socket that was connecting or open: the status goes to
\* disconnected and scheduleReconnect() starts a timer with the current delay
OnClose ==
    /\ ws \in {"CONNECTING", "OPEN"}
    /\ Len(sched) < MaxFailures
    /\ ws' = "CLOSED"
    /\ connected' = FALSE
    /\ reconnectTimers' = Append(reconnectTimers, reconnectDelay)
    /\ sched' = Append(sched, reconnectDelay)
    /\ UNCHANGED <<reconnectDelay, failsBeforeOpen, renderVars, tableVars, convVars>>

\* an onerror that calls scheduleReconnect() as onclose does
OnErrorThenCloseSchedulesTwice ==
    /\ ws \in {"CONNECTING", "OPEN"}
    /\ Len(sched) < MaxFailures
    /\ ws' = "CLOSED"
    /\ connected' = FALSE
    /\ reconnectTimers' = reconnectTimers \o <<reconnectDelay, reconnectDelay>>
    /\ sched' = sched \o <<reconnectDelay, reconnectDelay>>
    /\ UNCHANGED <<reconnectDelay, failsBeforeOpen, renderVars, tableVars, convVars>>

\* ws.onerror, then ws.onclose: a failed connection fires both, one after the other
OnErrorThenClose ==
    /\ ws \in {"CONNECTING", "OPEN"}
    /\ Len(sched) < MaxFailures
    /\ ws' = "CLOSED"
    /\ connected' = FALSE
    /\ reconnectTimers' = Append(reconnectTimers, reconnectDelay)
    /\ sched' = Append(sched, reconnectDelay)
    /\ UNCHANGED <<reconnectDelay, failsBeforeOpen, renderVars, tableVars, convVars>>

\* the callback of scheduleReconnect's timer k, when this.ws is null or not
\* closed (nothing happens) or when connect() gets a new socket
ReconnectTimerFires(k) ==
    /\ k \in 1..Len(reconnectTimers)
    /\ reconnectTimers' = RemoveAt(reconnectTimers, k)
    /\ IF ws = "CLOSED"
       THEN /\ ws' = "CONNECTING"
            /\ reconnectDelay' = NextDelay(reconnectDelay)
       ELSE UNCHANGED <<ws, reconnectDelay>>
    /\ UNCHANGED <<connected, sched, failsBeforeOpen, renderVars, tableVars, convVars>>

\* the callback of scheduleReconnect's timer k when new WebSocket throws inside
\* connect(): the catch clause schedules the next timer with the delay of this
\* moment, and the callback doubles the delay after connect() has returned
ReconnectTimerFiresAndConnectThrows(k) ==
    /\ k \in 1..Len(reconnectTimers)
    /\ ws = "CLOSED"
    /\ Len(sched) < MaxFailures
    /\ connected' = FALSE
    /\ reconnectTimers' = Append(RemoveAt(reconnectTimers, k), reconnectDelay)
    /\ sched' = Append(sched, reconnectDelay)
    /\ reconnectDelay' = NextDelay(reconnectDelay)
    /\ UNCHANGED <<ws, failsBeforeOpen, renderVars, tableVars, convVars>>

----------------------------------------------------------------------------
(* The dispatcher: ws.onmessage and handleMessage *)

\* clearTimeout(this.initialRenderTimeout), then setTimeout: the timer that the
\* handle names is cancelled if it is still pending, and a new one is started
Rescheduled(pending, handlePending) ==
    (IF handlePending THEN pending - 1 ELSE pending) + 1

\* a handler whose catch clause treats a message that does not parse as a
\* failure of the connection and schedules a reconnect
OnMessageReconnectsOnGarbage(data, now) ==
    /\ ws = "OPEN"
    /\ IF ~data.parses
       THEN /\ lastEvent' = "garbage"
            /\ reconnectTimers' = Append(reconnectTimers, reconnectDelay)
            /\ UNCHANGED <<tableVars, initialRenderTimeout, renderTimers>>
            /\ UNCHANGED <<ws, reconnectDelay, connected, sched, failsBeforeOpen>>
       ELSE IF data.type = "job_update"
       THEN LET u == updateJobStates(digitStates, maxDigit, data.queue_jobs, data.inflight_jobs)
            IN  /\ digitStates' = u.digitStates
                /\ maxDigit' = u.maxDigit
                /\ initialRenderTimeout' = IF u.threw THEN initialRenderTimeout ELSE TRUE
                /\ renderTimers' = IF u.threw THEN renderTimers
                                   ELSE Rescheduled(renderTimers, initialRenderTimeout)
                /\ lastEvent' = IF u.threw THEN "job_update_threw" ELSE "job_update"
                /\ UNCHANGED <<results, inserted>>
       ELSE IF data.type = "result"
       THEN LET u == updateResultState(digitStates, maxDigit, data.result)
            IN  /\ results' = addResultRecord(results, data, now)
                /\ inserted' = inserted + 1
                /\ digitStates' = u.digitStates
                /\ maxDigit' = u.maxDigit
                /\ lastEvent' = "result"
                /\ UNCHANGED <<initialRenderTimeout, renderTimers>>
       ELSE /\ initialRenderTimeout' = TRUE
            /\ renderTimers' = Rescheduled(renderTimers, initialRenderTimeout)
            /\ lastEvent' = data.type
            /\ UNCHANGED tableVars
    /\ data.parses => UNCHANGED connVars
    /\ UNCHANGED convVars

\* a handleMessage whose default case falls into addResult's history update
OnMessageRecordsUnknown(data, now) ==
    /\ ws = "OPEN"
    /\ IF ~data.parses
       THEN /\ lastEvent' = "garbage"
            /\ UNCHANGED <<tableVars, initialRenderTimeout, renderTimers>>
       ELSE IF data.type = "job_update"
       THEN LET u == updateJobStates(digitStates, maxDigit, data.queue_jobs, data.inflight_jobs)
            IN  /\ digitStates' = u.digitStates
                /\ maxDigit' = u.maxDigit
                /\ initialRenderTimeout' = IF u.threw THEN initialRenderTimeout ELSE TRUE
                /\ renderTimers' = IF u.threw THEN renderTimers
                                   ELSE Rescheduled(renderTimers, initialRenderTimeout)
                /\ lastEvent' = IF u.threw THEN "job_update_threw" ELSE "job_update"
                /\ UNCHANGED <<results, inserted>>
       ELSE IF data.type = "result"
       THEN LET u == updateResultState(digitStates, maxDigit, data.result)
            IN  /\ results' = addResultRecord(results, data, now)
                /\ inserted' = inserted + 1
                /\ digitStates' = u.digitStates
                /\ maxDigit' = u.maxDigit
                /\ lastEvent' = "result"
                /\ UNCHANGED <<initialRenderTimeout, renderTimers>>
       ELSE /\ initialRenderTimeout' = TRUE
            /\ renderTimers' = Rescheduled(renderTimers, initialRenderTimeout)
            /\ lastEvent' = data.type
            /\ results' = IF data.type = "queue_update" THEN results
                          ELSE addResultRecord(results, data, now)
            /\ UNCHANGED <<digitStates, maxDigit, inserted>>
    /\ UNCHANGED <<connVars, convVars>>

\* ws.onmessage(event) on the open socket, the clock reading now seconds.
\* JSON.parse and handleMessage run inside try/catch: an exception ends the
\* handler and keeps what it did before.
OnMessage(data, now) ==
    /\ ws = "OPEN"
    /\ IF ~data.parses
       THEN /\ lastEvent' = "garbage"
            /\ UNCHANGED <<tableVars, initialRenderTimeout, renderTimers>>
       ELSE IF data.type = "job_update"
       THEN LET u == updateJobStates(digitStates, maxDigit, data.queue_jobs, data.inflight_jobs)
            IN  /\ digitStates' = u.digitStates
                /\ maxDigit' = u.maxDigit
                /\ initialRenderTimeout' = IF u.threw THEN initialRenderTimeout ELSE TRUE
                /\ renderTimers' = IF u.threw THEN renderTimers
                                   ELSE Rescheduled(renderTimers, initialRenderTimeout)
                /\ lastEvent' = IF u.threw THEN "job_update_threw" ELSE "job_update"
                /\ UNCHANGED <<results, inserted>>
       ELSE IF data.type = "result"
       THEN LET u == updateResultState(digitStates, maxDigit, data.result)
            IN  /\ results' = addResultRecord(results, data, now)
                /\ inserted' = inserted + 1
                /\ digitStates' = u.digitStates
                /\ maxDigit' = u.maxDigit
                /\ lastEvent' = "result"
                /\ UNCHANGED <<initialRenderTimeout, renderTimers>>
       ELSE /\ initialRenderTimeout' = TRUE
            /\ renderTimers' = Rescheduled(renderTimers, initialRenderTimeout)
            /\ lastEvent' = data.type
            /\ UNCHANGED tableVars
    /\ UNCHANGED <<connVars, convVars>>

\* the callback of a timer of lines 149-153; the handle keeps the number of a
\* timer that has fired, and clearTimeout of such a handle does nothing
RenderTimerFires ==
    /\ renderTimers > 0
    /\ renderTimers' = renderTimers - 1
    /\ initialRenderTimeout' = (initialRenderTimeout /\ renderTimers' > 0)
    /\ UNCHANGED <<connVars, tableVars, lastEvent, convVars>>

\* the messages a server sends on an open socket when inserted results have
\* been handled: job ids number the results in the order of their arrival, and
\* the messages carry no timestamp
DispatcherFeed ==
    {GarbageMessage, QueueUpdateMessage, UnknownMessage}
    \cup {JobUpdateMessage(q, i) : q \in JobLists, i \in JobLists}
    \cup {ResultMessage(inserted + 1, r, Undefined) : r \in ResultPayloads}

Deliver ==
    \E data \in DispatcherFeed :
        /\ data.type = "result" => inserted < MaxResultEvents
        /\ OnMessage(data, inserted + 1)

\* The dispatcher on a socket that stays open
Next ==
    \/ OnOpen
    \/ Deliver
    \/ RenderTimerFires

Spec == Init /\ [][Next]_vars

\* The session alone: the socket opens, fails and closes in any order, the
\* reconnect timers fire, and new WebSocket may throw at every reconnect
NextSession ==
    \/ OnOpen
    \/ OnClose
    \/ OnErrorThenClose
    \/ \E k \in 1..Len(reconnectTimers) : ReconnectTimerFires(k)
    \/ \E k \in 1..Len(reconnectTimers) : ReconnectTimerFiresAndConnectThrows(k)

SpecSession == Init /\ [][NextSession]_vars

\* A long run of results on a socket that stays open: result n has job id n and
\* carries a timestamp that decreases with n, so that the order of insertion and
\* the order of the timestamps differ; queue_update messages come in between
HistoryFeed ==
    {QueueUpdateMessage,
     ResultMessage(inserted + 1, ResultPayload(TRUE, <<"2", "f">>, 0, 2), MaxSent + 1 - inserted)}

DeliverHistory ==
    \E data \in HistoryFeed :
        /\ data.type = "result" => inserted < MaxSent
        /\ OnMessage(data, 0)

NextHistory ==
    \/ OnOpen
    \/ DeliverHistory
    \/ RenderTimerFires

SpecHistory == Init /\ [][NextHistory]_vars

\* The scenario of the first four digits on a socket that stays open: the
\* snapshot that queues the job for the digits 0..3, and results for the whole
\* job, for its halves and for a single digit, in any order and number
ScenarioJobUpdate ==
    JobUpdateMessage(JobList(TRUE, <<JobWrapper(FALSE, "bbp_hex", 0, 4)>>), JobList(TRUE, <<>>))

ScenarioResult == ResultPayload(TRUE, <<"2", "4", "3", "f">>, 0, 4)

ScenarioResults ==
    {ScenarioResult,
     ResultPayload(TRUE, <<"2", "4">>, 0, 2),
     ResultPayload(TRUE, <<"3", "f">>, 2, 2),
     ResultPayload(TRUE, <<"4">>, 1, 1)}

ScenarioFeed ==
    {ScenarioJobUpdate}
    \cup {ResultMessage(inserted + 1, r, Undefined) : r \in ScenarioResults}

DeliverScenario ==
    \E data \in ScenarioFeed :
        /\ data.type = "result" => inserted < MaxScenarioResults
        /\ OnMessage(data, inserted + 1)

NextScenario ==
    \/ OnOpen
    \/ DeliverScenario
    \/ RenderTimerFires

SpecScenario == Init /\ [][NextScenario]_vars

\* The conversion applied to every hex string of at most MaxHexLen of these
\* characters, with every maxDigits in 1..MaxM
ConvChars == {"0", "1", "2", "4", "8", "c", "f", "F"}

InitConversion ==
    /\ InitDashboard
    /\ hexInput \in SeqsUpTo(ConvChars, MaxHexLen)
    /\ maxDigitsInput \in 1..MaxM
    /\ decimalOut = <<>>

Convert ==
    /\ decimalOut = <<>>
    /\ decimalOut' = hexFractionToDecimal(hexInput, maxDigitsInput)
    /\ UNCHANGED <<connVars, renderVars, tableVars, hexInput, maxDigitsInput>>

NextConversion == Convert

SpecConversion == InitConversion /\ [][NextConversion]_vars

----------------------------------------------------------------------------
(* Properties of the digit-state table *)

IsResult(ds, k) == k \in DOMAIN ds /\ ds[k].state = "result"

\* C1: a step that handles no result event (in particular every job_update,
\* whatever its two job lists) leaves every index that is in state result in
\* state result with the same value.
ResultSticky ==
    [][inserted' = inserted =>
          \A k \in DOMAIN digitStates :
              digitStates[k].state = "result" =>
                  k \in DOMAIN digitStates' /\ digitStates'[k] = digitStates[k]]_vars

\* a snapshot has just been applied to a table that holds a result beside an
\* index the snapshot put in flight
ResultStickyWitness ==
    /\ lastEvent = "job_update"
    /\ IsResult(digitStates, 0)
    /\ 1 \in DOMAIN digitStates /\ digitStates[1].state = "inflight"

\* C2: in every reachable state and for every pair of job lists, a second
\* updateJobStates call with the same lists leaves the table and the high-water
\* mark as the first call left them.
SnapshotIdempotent ==
    \A q \in JobLists, i \in JobLists :
        LET once == updateJobStates(digitStates, maxDigit, q, i)
            twice == updateJobStates(once.digitStates, once.maxDigit, q, i)
        IN  /\ twice.digitStates = once.digitStates
            /\ twice.maxDigit = once.maxDigit

\* a snapshot has just been applied and left two entries, beside stale ones
\* that a different snapshot would prune
SnapshotIdempotentWitness ==
    /\ lastEvent = "job_update"
    /\ 0 \in DOMAIN digitStates /\ digitStates[0].state = "queue"
    /\ 1 \in DOMAIN digitStates /\ digitStates[1].state = "inflight"

\* the digit indices that the recognized descriptors of a job list cover
Covered(jobs) ==
    IF jobs.defined
    THEN UNION {IF jobs.items[k].isNull THEN {} ELSE JobDigits(jobs.items[k]) :
                   k \in 1..Len(jobs.items)}
    ELSE {}

FirstGap(ds) ==
    CHOOSE k \in 0..(MaxIdx + 1) :
        /\ ~IsResult(ds, k)
        /\ \A j \in 0..(k - 1) : IsResult(ds, j)

\* C4: in every reachable state getAllHexDigits returns the values of the
\* indices 0..k-1 in index order, k being the first index not in state result.
PrefixGapRule ==
    LET k == FirstGap(digitStates)
    IN  getAllHexDigits(digitStates, maxDigit) = [j \in 1..k |-> digitStates[j - 1].value]

\* C5: in every reachable state and for every result with a numeric start and
\* count, updateResultState sets index start+i to result(hex[i]) for every
\* i < min(count, len(hex)), leaves every other index as it was, and a second
\* call with the same result changes neither the table nor the high-water mark.
ApplyResultPost ==
    \A r \in ResultPayloads :
        (r.defined /\ IsNumber(r.start) /\ IsNumber(r.count)) =>
            LET post == updateResultState(digitStates, maxDigit, r)
                again == updateResultState(post.digitStates, post.maxDigit, r)
                n == Min(r.count, Len(r.hex))
                written == {r.start + i : i \in 0..(n - 1)}
            IN  /\ \A i \in 0..(n - 1) :
                       /\ r.start + i \in DOMAIN post.digitStates
                       /\ post.digitStates[r.start + i] = Entry("result", r.hex[i + 1])
                /\ \A k \in (DOMAIN digitStates \cup DOMAIN post.digitStates) \ written :
                       /\ k \in DOMAIN digitStates
                       /\ k \in DOMAIN post.digitStates
                       /\ post.digitStates[k] = digitStates[k]
                /\ again = post

\* two results for index 0 have been handled, "f" and then "2": the table holds
\* the later one
ApplyResultPostWitness ==
    /\ Len(results) = 2
    /\ lastEvent = "result"
    /\ results[2].result = ResultPayload(TRUE, <<"f">>, 0, 1)
    /\ results[1].result = ResultPayload(TRUE, <<"2", "f">>, 0, 1)
    /\ digitStates[0] = Entry("result", "2")
    /\ 1 \notin DOMAIN digitStates

----------------------------------------------------------------------------
(* Properties of the session *)

\* C6: the delays of the reconnect timers scheduled since the last successful
\* open (since construction before the first) are 1000, 2000, 4000, ..., each
\* twice the one before, capped at 30000, whether the attempt failed by a close
\* or by connect() throwing; no timer has a delay below 1000 or above 30000.
BackoffSequence ==
    /\ \A k \in 1..Len(sched) : sched[k] = Min(1000 * 2 ^ (k - 1), 30000)
    /\ \A k \in 1..Len(reconnectTimers) :
           1000 <= reconnectTimers[k] /\ reconnectTimers[k] <= 30000

\* C7: when an open socket closes, the reconnect timer that the close
\* schedules has the delay 1000, whatever failed before the socket opened.
BackoffReset ==
    [][(ws = "OPEN" /\ ws' = "CLOSED") =>
          reconnectTimers' = Append(reconnectTimers, 1000)]_vars

\* three attempts failed, the next socket opened and then closed: the timer
\* that is pending has the delay 1000
BackoffResetWitness ==
    /\ failsBeforeOpen >= 3
    /\ ws = "CLOSED"
    /\ sched = <<1000>>
    /\ reconnectTimers = <<1000>>
    /\ reconnectDelay = 1000

----------------------------------------------------------------------------
(* Properties of the result history *)

\* C8: after n result events the history holds min(n, 50) records, those of the
\* most recent events, the most recent first.
HistoryBound ==
    /\ Len(results) = Min(inserted, 50)
    /\ \A k \in 1..Len(results) : results[k].job_id = inserted - k + 1

\* 60 results have been handled: the history holds those numbered 60 down to
\* 11, and its timestamps increase from the first record to the last
HistoryBoundWitness ==
    /\ inserted = 60
    /\ Len(results) = 50
    /\ results[1].job_id = 60
    /\ results[50].job_id = 11
    /\ \A k \in 1..49 : results[k].timestamp < results[k + 1].timestamp

----------------------------------------------------------------------------
(* Properties of the conversion *)

\* the integer that the hex digits h denote
RECURSIVE HexNumber(_)
HexNumber(h) ==
    IF h = <<>> THEN 0
    ELSE LET c == h[Len(h)]
             v == CASE c \in {"0", "1", "2", "3", "4", "5", "6", "7", "8", "9"} ->
                          CHOOSE d \in 0..9 : <<"0", "1", "2", "3", "4", "5", "6", "7", "8", "9">>[d + 1] = c
                    [] c \in {"a", "A"} -> 10 [] c \in {"b", "B"} -> 11
                    [] c \in {"c", "C"} -> 12 [] c \in {"d", "D"} -> 13
                    [] c \in {"e", "E"} -> 14 [] c \in {"f", "F"} -> 15
         IN  16 * HexNumber(SubSeq(h, 1, Len(h) - 1)) + v

\* the integer that the decimal digits d denote
RECURSIVE DecNumber(_)
DecNumber(d) ==
    IF d = <<>> THEN 0
    ELSE LET c == d[Len(d)]
             v == CHOOSE x \in 0..9 : <<"0", "1", "2", "3", "4", "5", "6", "7", "8", "9">>[x + 1] = c
         IN  10 * DecNumber(SubSeq(d, 1, Len(d) - 1)) + v

\* the digits after "3." of the returned string
Fraction(out) == SubSeq(out, 3, Len(out))

\* out is "3." and then the expansion of h / 16^Len(h) truncated to p digits,
\* zeros at its end left out or not
TruncatedTo(out, h, p) ==
    LET r == Len(out) - 2
    IN  /\ Len(out) >= 2 /\ out[1] = "3" /\ out[2] = "."
        /\ r <= p
        /\ DecNumber(Fraction(out)) * 10 ^ (p - r) = (HexNumber(h) * 10 ^ p) \div (16 ^ Len(h))

\* C9 as stated: for a non-empty hex string h and M >= 1 the result is "3."
\* and then the exact expansion of h / 16^L truncated to M digits.
ExactToRequestedPrecision ==
    (decimalOut # <<>> /\ hexInput # <<>>) =>
        TruncatedTo(decimalOut, hexInput, maxDigitsInput)

\* C9 amended: for a non-empty hex string h and M >= 1 the result is "3." and
\* then the exact expansion of h / 16^L truncated (not rounded) to min(L, M)
\* digits.
ExactTruncation ==
    (decimalOut # <<>> /\ hexInput # <<>>) =>
        TruncatedTo(decimalOut, hexInput, Min(Len(hexInput), maxDigitsInput))

\* "24" with maxDigits 4: 36/256 = 0.140625, and the result is "3.14"
ExactTruncationWitness ==
    /\ hexInput = <<"2", "4">>
    /\ maxDigitsInput = 4
    /\ decimalOut = <<"3", ".", "1", "4">>

\* the first step of the long division of h / 16^Len(h) that leaves no
\* remainder, if there is one among the first p steps, and p otherwise
StopStep(h, p) ==
    LET exact == {j \in 1..p : (HexNumber(h) * 10 ^ j) % (16 ^ Len(h)) = 0}
    IN  IF exact = {} THEN p ELSE CHOOSE j \in exact : \A l \in exact : j <= l

\* C10: the result has min(L, M) digits after "3.", or fewer when a step of the
\* division leaves the remainder zero: then it ends with the digit of that step;
\* the result for the empty string is "3." and for "8" it is "3.5".
ConversionLength ==
    decimalOut # <<>> =>
        /\ Len(decimalOut) - 2 = StopStep(hexInput, Min(Len(hexInput), maxDigitsInput))
        /\ hexInput = <<>> => decimalOut = <<"3", ".">>
        /\ hexInput = <<"8">> => decimalOut = <<"3", ".", "5">>

\* "8" with the largest maxDigits: the division ends after its first step, and
\* "80" gives the same result
ConversionLengthWitness ==
    /\ hexInput = <<"8", "0">>
    /\ maxDigitsInput = MaxM
    /\ decimalOut = <<"3", ".", "5">>
    /\ hexFractionToDecimal(<<"8">>, MaxM) = <<"3", ".", "5">>

----------------------------------------------------------------------------
(* Properties of the dispatcher *)

\* C11: handling a message whose data is not valid JSON changes neither the
\* socket's state, the backoff delay, the table, the high-water mark nor the
\* result history, schedules no reconnect timer, and leaves the socket open, so
\* that the next message is handled as usual.
GarbageDropped ==
    [][OnMessage(GarbageMessage, inserted + 1) =>
          /\ UNCHANGED <<ws, reconnectDelay, reconnectTimers>>
          /\ UNCHANGED <<digitStates, maxDigit, results>>
          /\ ws' = "OPEN"]_vars

\* a message that does not parse has just been handled, after a snapshot and a
\* result that filled the table and the history
GarbageDroppedWitness ==
    /\ lastEvent = "garbage"
    /\ ws = "OPEN"
    /\ reconnectTimers = <<>>
    /\ Len(results) = 1
    /\ IsResult(digitStates, 0)
    /\ 1 \in DOMAIN digitStates /\ digitStates[1].state = "queue"

\* a parsed message that lacks what its type requires: a job_update with a job
\* list that is missing or holds a null wrapper, or a result message without a
\* usable result payload
Malformed(data) ==
    /\ data.parses
    /\ \/ data.type = "job_update" /\ (ListThrows(data.queue_jobs) \/ ListThrows(data.inflight_jobs))
       \/ data.type = "result" /\ ~ResultUsable(data.result)

\* C12: handling a malformed message leaves the table, the high-water mark and
\* the result history exactly as they were before the message.
MalformedSkipped ==
    [][\A data \in DispatcherFeed :
          (Malformed(data) /\ OnMessage(data, inserted + 1)) =>
              UNCHANGED <<digitStates, maxDigit, results>>]_vars

\* a wrapper that is not a recognized descriptor: no payload, a payload of
\* another type, no start or no count, or a start or count that is no number
Unrecognized(job) ==
    /\ ~job.isNull
    /\ \/ job.ptype # "bbp_hex"
       \/ ~IsNumber(job.start)
       \/ ~IsNumber(job.count)

\* the wrappers of every unrecognized kind
UnrecognizedWrappers ==
    {JobWrapper(FALSE, "none", Undefined, Undefined),
     JobWrapper(FALSE, "other", 0, 1),
     JobWrapper(FALSE, "bbp_hex", Undefined, 1),
     JobWrapper(FALSE, "bbp_hex", 0, Undefined),
     JobWrapper(FALSE, "bbp_hex", 0, NonNumeric),
     JobWrapper(FALSE, "bbp_hex", NonNumeric, 1)}

\* the job lists of the snapshots, with every kind of unrecognized wrapper
JobListsWithUnrecognized ==
    {JobList(TRUE, q) : q \in SeqsUpTo(JobWrappers \cup UnrecognizedWrappers, MaxJobs + 1)}

\* a job list without its unrecognized wrappers
WithoutUnrecognized(jobs) ==
    JobList(jobs.defined, SelectSeq(jobs.items, LAMBDA job : ~Unrecognized(job)))

\* C13: in every reachable state and for every snapshot, updateJobStates leaves
\* the table and the high-water mark that it leaves for the same snapshot with
\* the unrecognized wrappers removed.
UnrecognizedIgnored ==
    \A q \in JobListsWithUnrecognized, i \in JobListsWithUnrecognized :
        updateJobStates(digitStates, maxDigit, q, i)
            = updateJobStates(digitStates, maxDigit, WithoutUnrecognized(q), WithoutUnrecognized(i))

\* C14: handling a queue_update message or a message of an unrecognized type
\* leaves the table, the high-water mark and the result history unchanged.
NonStateFrame ==
    [][(\/ OnMessage(QueueUpdateMessage, inserted + 1)
        \/ OnMessage(UnknownMessage, inserted + 1)) =>
          UNCHANGED <<digitStates, maxDigit, results>>]_vars

\* a message of an unrecognized type has just been handled, after a snapshot
\* and a result that filled the table and the history
NonStateFrameWitness ==
    /\ lastEvent = "unknown"
    /\ Len(results) = 1
    /\ maxDigit = 1
    /\ IsResult(digitStates, 0)
    /\ 1 \in DOMAIN digitStates /\ digitStates[1].state = "inflight"

----------------------------------------------------------------------------
(* More properties of the session *)

\* C15: a step in which the socket goes from connecting or open to closed, or
\* in which connect() throws, schedules exactly one reconnect timer; at most
\* one reconnect timer is pending at any time; and a new socket is only
\* created by the one pending timer while the socket before it is closed, so
\* that at most one socket is connecting or open.
OneReconnectPerFailure ==
    [][/\ Len(reconnectTimers) <= 1
       /\ Len(reconnectTimers') <= 1
       /\ (ws \in {"CONNECTING", "OPEN"} /\ ws' = "CLOSED") =>
              /\ reconnectTimers' = Append(reconnectTimers, reconnectDelay)
              /\ sched' = Append(sched, reconnectDelay)
       /\ (\E k \in 1..Len(reconnectTimers) : ReconnectTimerFiresAndConnectThrows(k)) =>
              /\ Len(reconnectTimers') = 1
              /\ Len(sched') = Len(sched) + 1
       /\ (ws' = "CONNECTING" /\ ws # "CONNECTING") =>
              /\ ws = "CLOSED"
              /\ Len(reconnectTimers) = 1
              /\ reconnectTimers' = <<>>]_vars

\* after an open socket closed, the reconnect threw twice: three timers have
\* been scheduled since the open, and one is pending
OneReconnectPerFailureWitness ==
    /\ failsBeforeOpen >= 0
    /\ ws = "CLOSED"
    /\ sched = <<1000, 1000, 2000>>
    /\ reconnectTimers = <<2000>>

----------------------------------------------------------------------------
(* Properties of the deferred re-render *)

\* C16: at most one re-render timer is pending at any time, and after the
\* handling of a parsed message of any type but result exactly one is pending,
\* however many were handled since the last one fired.
DebouncedRender ==
    [][/\ renderTimers <= 1
       /\ renderTimers' <= 1
       /\ \A data \in DispatcherFeed :
              (data.parses /\ data.type # "result" /\ OnMessage(data, inserted + 1)) =>
                  renderTimers' = 1]_vars

----------------------------------------------------------------------------
(* The scenario of the first four digits *)

FourQueued == [k \in 0..3 |-> Entry("queue", Null)]

FourResults == [k \in 0..3 |-> Entry("result", <<"2", "4", "3", "f">>[k + 1])]

\* C17: the job_update that queues the job {start 0, count 4}, handled on the
\* initial empty table, leaves the indices 0..3 in state queue; the result
\* {start 0, count 4, hex "243f"} handled on that table leaves them in state
\* result with the values 2, 4, 3, f; getAllHexDigits then returns "243f", and
\* hexFractionToDecimal of that string with maxDigits 1000 begins "3.1415".
ScenarioEndToEnd ==
    [][/\ (/\ digitStates = EmptyMap
           /\ maxDigit = -1
           /\ OnMessage(ScenarioJobUpdate, inserted + 1)) =>
              digitStates' = FourQueued
       /\ (/\ digitStates = FourQueued
           /\ OnMessage(ResultMessage(inserted + 1, ScenarioResult, Undefined), inserted + 1)) =>
              /\ digitStates' = FourResults
              /\ getAllHexDigits(digitStates', maxDigit') = <<"2", "4", "3", "f">>
              /\ SubSeq(hexFractionToDecimal(getAllHexDigits(digitStates', maxDigit'), 1000), 1, 6)
                     = <<"3", ".", "1", "4", "1", "5">>]_vars

\* the scenario has run: the snapshot was handled (its render timer is still
\* pending), then the one result, and the table holds the four digits
ScenarioEndToEndWitness ==
    /\ lastEvent = "result"
    /\ inserted = 1
    /\ initialRenderTimeout
    /\ results[1].result = ScenarioResult
    /\ digitStates = FourResults
    /\ maxDigit = 3

----------------------------------------------------------------------------
(* Properties of the reconciliation *)

\* C18: in every reachable state and for every snapshot that updateJobStates
\* processes to its end, an index of the queued set that is in state queue
\* afterwards was absent or in state queue before and is not in the inflight
\* set; an index that was in state inflight and that the snapshot lists only as
\* queued is not in state queue afterwards.
QueueOnlyIfAbsentOrQueue ==
    \A q \in JobLists, i \in JobLists :
        LET post == updateJobStates(digitStates, maxDigit, q, i)
        IN  ~post.threw =>
                \A k \in Covered(q) :
                    (IsNumber(k) /\ k \in DOMAIN post.digitStates
                                 /\ post.digitStates[k].state = "queue") =>
                        /\ k \notin DOMAIN digitStates \/ digitStates[k].state = "queue"
                        /\ k \notin Covered(i)

\* a job list that is present and holds no null wrapper and no descriptor
\* whose start or count is not a number
WellFormed(jobs) ==
    /\ jobs.defined
    /\ \A n \in 1..Len(jobs.items) :
           LET job == jobs.items[n]
           IN  /\ ~job.isNull
               /\ job.ptype = "bbp_hex" => IsNumber(job.start) /\ IsNumber(job.count)

----------------------------------------------------------------------------
(* Properties of the high-water mark *)

\* the digit indices that a message shows: those of the recognized descriptors
\* of a job_update, those that a result with a numeric range is applied to
SeenBy(data) ==
    IF data.type = "job_update"
    THEN {k \in Covered(data.queue_jobs) \cup Covered(data.inflight_jobs) : IsNumber(k)}
    ELSE IF data.type = "result" /\ ResultUsable(data.result)
              /\ IsNumber(data.result.start) /\ IsNumber(data.result.count)
    THEN {data.result.start + n : n \in 0..(Min(data.result.count, Len(data.result.hex)) - 1)}
    ELSE {}

\* the largest element of the set of integers S, and m if there is none above m
LargestOf(m, S) ==
    IF \E k \in S : k > m THEN CHOOSE k \in S : \A l \in S : l <= k ELSE m

\* C20: maxDigit starts at -1, no step decreases it, and the handling of a
\* well-formed message leaves it at the largest of its value before and of the
\* digit indices that the message shows; so it is the largest index seen so
\* far, whether or not the index still has an entry in the table.
HighWaterMark ==
    [][/\ IsNumber(maxDigit) => (IsNumber(maxDigit') /\ maxDigit' >= maxDigit)
       /\ \A data \in DispatcherFeed :
              (/\ data.parses
               /\ ~Malformed(data)
               /\ IsNumber(maxDigit)
               /\ OnMessage(data, inserted + 1)) =>
                  maxDigit' = LargestOf(maxDigit, SeenBy(data))]_vars

----------------------------------------------------------------------------
(* Properties of the session's recovery *)

\* no socket is connecting or open
ChannelClosed(socket) == socket \notin {"CONNECTING", "OPEN"}

\* C21: whenever no socket is connecting or open, after a close as after a
\* throwing connect(), the first one of the constructor included, a reconnect
\* timer is pending, and the callback of a reconnect timer that fires in such a
\* state calls connect(): the session is never closed with nothing left to
\* reopen it.
ReconnectAlwaysPending ==
    [][/\ ChannelClosed(ws') => reconnectTimers' # <<>>
       /\ \A k \in 1..Len(reconnectTimers) :
              (ChannelClosed(ws) /\ ReconnectTimerFires(k)) => ws' = "CONNECTING"]_vars

----------------------------------------------------------------------------
(* Properties that the scans of the table rely on *)

\* C22: in every reachable state every key of digitStates is at most maxDigit,
\* as the comparison i <= this.maxDigit of the scans sees it; also in the state
\* that a job_update leaves when it throws midway.
KeysWithinMark ==
    \A k \in DOMAIN digitStates : LessEq(k, maxDigit)

\* C23: no step, whatever message it handles, makes the string that
\* getAllHexDigits returns shorter.
PrefixNeverShrinks ==
    [][Len(getAllHexDigits(digitStates', maxDigit'))
           >= Len(getAllHexDigits(digitStates, maxDigit))]_vars

====
